---------------------------- MODULE Spec2Model ----------------------------
(***************************************************************************)
(* The VOSI condition catalog of pyvo/io/vosi/exceptions.py.               *)
(*                                                                         *)
(* The module is a list of class statements: VOSIWarning, the warnings     *)
(* W01..W35 and the fatal conditions E01..E09, each with a docstring and,  *)
(* in its body, a message_template and possibly default_args.  Strings     *)
(* that the properties look into are kept as sequences of pieces whose     *)
(* concatenation is the source string; the piece "{}" is a positional      *)
(* placeholder of str.format.                                              *)
(*                                                                         *)
(* The source holds no lookup, format or emit function: messages are       *)
(* formatted by the imported base class VOWarning and conditions are       *)
(* emitted by the validating engine.  Those operations are modelled from   *)
(* the contracts of spec.md section 4.1 and act on the catalog built from  *)
(* the class statements.                                                   *)
(***************************************************************************)
EXTENDS Integers, Sequences, FiniteSets, TLC

VARIABLES catalog, result, aborted

vars == <<catalog, result, aborted>>

(* Longest argument list the engine supplies. *)
MaxArgs == 2

(* The grave accent (U+0060) of the source strings: the character cannot   *)
(* be written in a string here, so this piece stands for it.               *)
Grave == "<U+0060>"

(***************************************************************************)
(* The exported names, lines 33-35.                                        *)
(***************************************************************************)

(* "{:0>2}".format(i): str(i), right-aligned and filled with "0" to width 2 *)
Pad2(i) == IF i < 10 THEN "0" \o ToString(i) ELSE ToString(i)

(* range(a, b) as a sequence: a, a+1, ..., b-1 *)
Range(a, b) == [k \in 1..(b - a) |-> a + k - 1]

(* a mis-set range bound: the last warning code is not exported *)
all_ShortRange ==
    <<"VOSIWarning">>
        \o [k \in DOMAIN Range(1, 35) |-> "W" \o Pad2(Range(1, 35)[k])]
        \o [k \in DOMAIN Range(1, 10) |-> "E" \o Pad2(Range(1, 10)[k])]

__all__ ==
    <<"VOSIWarning">>
        \o [k \in DOMAIN Range(1, 36) |-> "W" \o Pad2(Range(1, 36)[k])]
        \o [k \in DOMAIN Range(1, 10) |-> "E" \o Pad2(Range(1, 10)[k])]

(***************************************************************************)
(* Classes the module refers to and does not define.  VOWarning is         *)
(* imported at line 31 from astropy.io.votable.exceptions, where it        *)
(* declares an empty message_template and empty default_args; ValueError   *)
(* is the builtin.  Their own ancestors declare neither attribute and are  *)
(* not followed.                                                           *)
(***************************************************************************)
VOWarning ==
    [name |-> "VOWarning", bases |-> <<>>,
     declares |-> {"message_template", "default_args"},
     message_template |-> <<>>,
     default_args |-> <<>>,
     doc |-> <<>>]

ValueError ==
    [name |-> "ValueError", bases |-> <<>>,
     declares |-> {},
     message_template |-> <<>>,
     default_args |-> <<>>,
     doc |-> <<>>]

ExternalClasses == <<VOWarning, ValueError>>

(***************************************************************************)
(* Variants of single class statements, each a slip a maintainer could     *)
(* make: a dropped line, a misplaced placeholder, a wrong number or base.  *)
(***************************************************************************)

(* W01 with its default_args line left out *)
W01_NoDefaults ==
    [name |-> "W01", bases |-> <<"VOSIWarning">>,
     declares |-> {"message_template"},
     message_template |-> <<"'", "{}", "' is not a valid URI">>,
     default_args |-> <<>>,
     doc |-> <<"The attribute must be a valid URI as defined in " \o Grave \o "RFC 2396 <http://www.ietf.org/rfc/rfc2396.txt>" \o Grave \o "_.">>]

(* W15 with the placeholder moved in front of the text *)
W15_PlaceholderFirst ==
    [name |-> "W15", bases |-> <<"VOSIWarning">>,
     declares |-> {"message_template", "default_args"},
     message_template |-> <<"{}", "pyvo.dal is designed for VOSITables version 1.0, and 1.1, but this file is ">>,
     default_args |-> <<"x">>,
     doc |-> <<"Unknown issues may arise using " \o Grave \o Grave \o "dal" \o Grave \o Grave \o " with VOSITables files from a version other than 1.0 or 1.1">>]

(* W13 declaring default_args for two placeholders where the template has one *)
W13_TwoDefaults ==
    [name |-> "W13", bases |-> <<"VOSIWarning">>,
     declares |-> {"message_template", "default_args"},
     message_template |-> <<"{}", " element contains more than one ", "title", " element">>,
     default_args |-> <<"x", "y">>,
     doc |-> <<"A " \o Grave \o Grave, "title", Grave \o Grave \o " element can only appear once within ", "its parent element", ".">>]

(* W35 entered under the next free number *)
W35_Misnumbered ==
    [name |-> "W36", bases |-> <<"VOSIWarning">>,
     declares |-> {"message_template"},
     message_template |-> <<"The ", "backAt", " element must not occur more than once">>,
     default_args |-> <<>>,
     doc |-> <<"The " \o Grave, "backAt", Grave \o " element must not occur more than once.">>]

(* E05 without its ValueError base *)
E05_NoValueError ==
    [name |-> "E05", bases |-> <<"VOSIWarning">>,
     declares |-> {"message_template"},
     message_template |-> <<"The element contains no " \o Grave \o "fkColumn" \o Grave>>,
     default_args |-> <<>>,
     doc |-> <<"The element must contain at least one " \o Grave \o "fkColumn" \o Grave \o ".">>]

(***************************************************************************)
(* The class statements, lines 37-443, in source order.  declares is the   *)
(* set of attributes the class body assigns; an attribute outside it is    *)
(* inherited.  doc is the first sentence of the docstring.                 *)
(***************************************************************************)

(* class VOSIWarning(VOWarning), lines 37-42 *)
VOSIWarning ==
    [name |-> "VOSIWarning", bases |-> <<"VOWarning">>,
     declares |-> {},
     message_template |-> <<>>,
     default_args |-> <<>>,
     doc |-> <<"The base class of all VOSI warnings and exceptions.">>]

(* class W01(VOSIWarning), lines 45-52 *)
W01 ==
    [name |-> "W01", bases |-> <<"VOSIWarning">>,
     declares |-> {"message_template", "default_args"},
     message_template |-> <<"'", "{}", "' is not a valid URI">>,
     default_args |-> <<"x">>,
     doc |-> <<"The attribute must be a valid URI as defined in " \o Grave \o "RFC 2396 <http://www.ietf.org/rfc/rfc2396.txt>" \o Grave \o "_.">>]

(* class W02(VOSIWarning), lines 55-60 *)
W02 ==
    [name |-> "W02", bases |-> <<"VOSIWarning">>,
     declares |-> {"message_template", "default_args"},
     message_template |-> <<"'", "{}", "' is not a valid datatype according to the VOSI spec">>,
     default_args |-> <<"x">>,
     doc |-> <<"The attribute must be any of the accepted types in the VOSI spec.">>]

(* class W03(VOSIWarning), lines 63-67 *)
W03 ==
    [name |-> "W03", bases |-> <<"VOSIWarning">>,
     declares |-> {"message_template"},
     message_template |-> <<"Size must be positive">>,
     default_args |-> <<>>,
     doc |-> <<"The attribute must be an positive integer.">>]

(* class W04(VOSIWarning), lines 70-76 *)
W04 ==
    [name |-> "W04", bases |-> <<"VOSIWarning">>,
     declares |-> {"message_template", "default_args"},
     message_template |-> <<"'", "{}", "' is not a recognized flag">>,
     default_args |-> <<"x">>,
     doc |-> <<"The attribute must have one of the recognized values 'indexed', 'primary', 'nullable'.">>]

(* class W05(VOSIWarning), lines 79-87 *)
W05 ==
    [name |-> "W05", bases |-> <<"VOSIWarning">>,
     declares |-> {"message_template", "default_args"},
     message_template |-> <<"{}", " element contains more than one ", "name", " element">>,
     default_args |-> <<"x">>,
     doc |-> <<"A " \o Grave \o Grave, "name", Grave \o Grave \o " element can only appear once within ", "its parent element", ".">>]

(* class W06(VOSIWarning), lines 90-98 *)
W06 ==
    [name |-> "W06", bases |-> <<"VOSIWarning">>,
     declares |-> {"message_template", "default_args"},
     message_template |-> <<"{}", " element contains more than one ", "description", " element">>,
     default_args |-> <<"x">>,
     doc |-> <<"A " \o Grave \o Grave, "description", Grave \o Grave \o " element can only appear once within ", "its parent element", ".">>]

(* class W07(VOSIWarning), lines 101-109 *)
W07 ==
    [name |-> "W07", bases |-> <<"VOSIWarning">>,
     declares |-> {"message_template", "default_args"},
     message_template |-> <<"{}", " element contains more than one ", "unit", " element">>,
     default_args |-> <<"x">>,
     doc |-> <<"A " \o Grave \o Grave, "unit", Grave \o Grave \o " element can only appear once within ", "its parent element", ".">>]

(* class W08(VOSIWarning), lines 112-120 *)
W08 ==
    [name |-> "W08", bases |-> <<"VOSIWarning">>,
     declares |-> {"message_template", "default_args"},
     message_template |-> <<"{}", " element contains more than one ", "ucd", " element">>,
     default_args |-> <<"x">>,
     doc |-> <<"A " \o Grave \o Grave, "ucd", Grave \o Grave \o " element can only appear once within ", "its parent element", ".">>]

(* class W09(VOSIWarning), lines 123-131 *)
W09 ==
    [name |-> "W09", bases |-> <<"VOSIWarning">>,
     declares |-> {"message_template", "default_args"},
     message_template |-> <<"{}", " element contains more than one ", "utype", " element">>,
     default_args |-> <<"x">>,
     doc |-> <<"A " \o Grave \o Grave, "utype", Grave \o Grave \o " element can only appear once within ", "its parent element", ".">>]

(* class W10(VOSIWarning), lines 134-142 *)
W10 ==
    [name |-> "W10", bases |-> <<"VOSIWarning">>,
     declares |-> {"message_template", "default_args"},
     message_template |-> <<"{}", " element contains more than one ", "fromColumn", " element">>,
     default_args |-> <<"x">>,
     doc |-> <<"A " \o Grave \o Grave, "fromColumn", Grave \o Grave \o " element can only appear once within ", "its parent element", ".">>]

(* class W11(VOSIWarning), lines 145-153 *)
W11 ==
    [name |-> "W11", bases |-> <<"VOSIWarning">>,
     declares |-> {"message_template", "default_args"},
     message_template |-> <<"{}", " element contains more than one ", "targetColumn", " element">>,
     default_args |-> <<"x">>,
     doc |-> <<"A " \o Grave \o Grave, "targetColumn", Grave \o Grave \o " element can only appear once within ", "its parent element", ".">>]

(* class W12(VOSIWarning), lines 156-164 *)
W12 ==
    [name |-> "W12", bases |-> <<"VOSIWarning">>,
     declares |-> {"message_template", "default_args"},
     message_template |-> <<"{}", " element contains more than one ", "targetTable", " element">>,
     default_args |-> <<"x">>,
     doc |-> <<"A " \o Grave \o Grave, "targetTable", Grave \o Grave \o " element can only appear once within ", "its parent element", ".">>]

(* class W13(VOSIWarning), lines 167-175 *)
W13 ==
    [name |-> "W13", bases |-> <<"VOSIWarning">>,
     declares |-> {"message_template", "default_args"},
     message_template |-> <<"{}", " element contains more than one ", "title", " element">>,
     default_args |-> <<"x">>,
     doc |-> <<"A " \o Grave \o Grave, "title", Grave \o Grave \o " element can only appear once within ", "its parent element", ".">>]

(* class W14(VOSIWarning), lines 178-184 *)
W14 ==
    [name |-> "W14", bases |-> <<"VOSIWarning">>,
     declares |-> {"message_template"},
     message_template |-> <<"tableset element must contain at least one schema element.">>,
     default_args |-> <<>>,
     doc |-> <<"The tableset element must contain at least one schema element.">>]

(* class W15(VOSIWarning), lines 187-196 *)
W15 ==
    [name |-> "W15", bases |-> <<"VOSIWarning">>,
     declares |-> {"message_template", "default_args"},
     message_template |-> <<"pyvo.dal is designed for VOSITables version 1.0, and 1.1, but this file is ", "{}">>,
     default_args |-> <<"x">>,
     doc |-> <<"Unknown issues may arise using " \o Grave \o Grave \o "dal" \o Grave \o Grave \o " with VOSITables files from a version other than 1.0 or 1.1">>]

(* class W16(VOSIWarning), lines 199-204 *)
W16 ==
    [name |-> "W16", bases |-> <<"VOSIWarning">>,
     declares |-> {"message_template"},
     message_template |-> <<"The element table is not a valid root element in VOSI below v1.1">>,
     default_args |-> <<>>,
     doc |-> <<"The table element is not a valid root element in VOSI before version 1.1">>]

(* class W17(VOSIWarning), lines 207-215 *)
W17 ==
    [name |-> "W17", bases |-> <<"VOSIWarning">>,
     declares |-> {"message_template"},
     message_template |-> <<"ParamHTTP", " element contains more than one ", "ParamHTTP", " element">>,
     default_args |-> <<>>,
     doc |-> <<"A " \o Grave \o Grave, "queryType", Grave \o Grave \o " element can only appear once within ", "the ParamHTTP element", ".">>]

(* class W18(VOSIWarning), lines 218-223 *)
W18 ==
    [name |-> "W18", bases |-> <<"VOSIWarning">>,
     declares |-> {"message_template"},
     message_template |-> <<"The QueryType element must not occur more than two times.">>,
     default_args |-> <<>>,
     doc |-> <<"The QueryType element must not occur more than two times.">>]

(* class W19(VOSIWarning), lines 226-231 *)
W19 ==
    [name |-> "W19", bases |-> <<"VOSIWarning">>,
     declares |-> {"message_template"},
     message_template |-> <<"TAP Capabilities must not have an ivo-id other than ivo://ivoa.net/std/TAP">>,
     default_args |-> <<>>,
     doc |-> <<"TAP Capabilities must not have an ivo-id other than ivo://ivoa.net/std/TAP">>]

(* class W20(VOSIWarning), lines 234-239 *)
W20 ==
    [name |-> "W20", bases |-> <<"VOSIWarning">>,
     declares |-> {"message_template"},
     message_template |-> <<"TAP Capabilties must have at least one " \o Grave \o "language" \o Grave \o " element.">>,
     default_args |-> <<>>,
     doc |-> <<"TAP Capabilties must have at least one " \o Grave \o "language" \o Grave \o " element.">>]

(* class W21(VOSIWarning), lines 242-245 *)
W21 ==
    [name |-> "W21", bases |-> <<"VOSIWarning">>,
     declares |-> {},
     message_template |-> <<>>,
     default_args |-> <<>>,
     doc |-> <<"TAP Capabilties must have at least one outputFormat element.">>]

(* class W22(VOSIWarning), lines 248-253 *)
W22 ==
    [name |-> "W22", bases |-> <<"VOSIWarning">>,
     declares |-> {"message_template"},
     message_template |-> <<"The ", "retentionPeriod", " element must not occur more than once">>,
     default_args |-> <<>>,
     doc |-> <<"The " \o Grave, "retentionPeriod", Grave \o " element must not occur more than once.">>]

(* class W23(VOSIWarning), lines 256-261 *)
W23 ==
    [name |-> "W23", bases |-> <<"VOSIWarning">>,
     declares |-> {"message_template"},
     message_template |-> <<"The ", "executionDuration", " element must not occur more than once">>,
     default_args |-> <<>>,
     doc |-> <<"The " \o Grave, "executionDuration", Grave \o " element must not occur more than once.">>]

(* class W24(VOSIWarning), lines 264-269 *)
W24 ==
    [name |-> "W24", bases |-> <<"VOSIWarning">>,
     declares |-> {"message_template"},
     message_template |-> <<"The ", "outputLimit", " element must not occur more than once">>,
     default_args |-> <<>>,
     doc |-> <<"The " \o Grave, "outputLimit", Grave \o " element must not occur more than once.">>]

(* class W25(VOSIWarning), lines 272-277 *)
W25 ==
    [name |-> "W25", bases |-> <<"VOSIWarning">>,
     declares |-> {"message_template"},
     message_template |-> <<"The ", "uploadLimit", " element must not occur more than once">>,
     default_args |-> <<>>,
     doc |-> <<"The " \o Grave, "uploadLimit", Grave \o " element must not occur more than once.">>]

(* class W26(VOSIWarning), lines 280-284 *)
W26 ==
    [name |-> "W26", bases |-> <<"VOSIWarning">>,
     declares |-> {"message_template"},
     message_template |-> <<"The ivo-id attribute is mandatory">>,
     default_args |-> <<>>,
     doc |-> <<"The ivo-id attribute is mandatory.">>]

(* class W27(VOSIWarning), lines 287-291 *)
W27 ==
    [name |-> "W27", bases |-> <<"VOSIWarning">>,
     declares |-> {"message_template"},
     message_template |-> <<"The ", "form", " element must not occur more than once">>,
     default_args |-> <<>>,
     doc |-> <<"The " \o Grave, "form", Grave \o " element must not occur more than once.">>]

(* class W28(VOSIWarning), lines 294-298 *)
W28 ==
    [name |-> "W28", bases |-> <<"VOSIWarning">>,
     declares |-> {"message_template"},
     message_template |-> <<"The ", "mime", " element must not occur more than once">>,
     default_args |-> <<>>,
     doc |-> <<"The " \o Grave, "mime", Grave \o " element must not occur more than once.">>]

(* class W29(VOSIWarning), lines 301-305 *)
W29 ==
    [name |-> "W29", bases |-> <<"VOSIWarning">>,
     declares |-> {"message_template"},
     message_template |-> <<"The ", "default", " element must not occur more than once">>,
     default_args |-> <<>>,
     doc |-> <<"The " \o Grave, "default", Grave \o " element must not occur more than once.">>]

(* class W30(VOSIWarning), lines 308-312 *)
W30 ==
    [name |-> "W30", bases |-> <<"VOSIWarning">>,
     declares |-> {"message_template"},
     message_template |-> <<"The ", "hard", " element must not occur more than once">>,
     default_args |-> <<>>,
     doc |-> <<"The " \o Grave, "hard", Grave \o " element must not occur more than once.">>]

(* class W31(VOSIWarning), lines 315-320 *)
W31 ==
    [name |-> "W31", bases |-> <<"VOSIWarning">>,
     declares |-> {"message_template"},
     message_template |-> <<"The content of the DataLimit element must be byte or row">>,
     default_args |-> <<>>,
     doc |-> <<"The content of the " \o Grave \o "DataLimit" \o Grave \o " element must be byte or row">>]

(* class W32(VOSIWarning), lines 323-327 *)
W32 ==
    [name |-> "W32", bases |-> <<"VOSIWarning">>,
     declares |-> {"message_template"},
     message_template |-> <<"The ", "available", " element must not occur more than once">>,
     default_args |-> <<>>,
     doc |-> <<"The " \o Grave, "available", Grave \o " element must not occur more than once.">>]

(* class W33(VOSIWarning), lines 330-334 *)
W33 ==
    [name |-> "W33", bases |-> <<"VOSIWarning">>,
     declares |-> {"message_template"},
     message_template |-> <<"The ", "upSince", " element must not occur more than once">>,
     default_args |-> <<>>,
     doc |-> <<"The " \o Grave, "upSince", Grave \o " element must not occur more than once.">>]

(* class W34(VOSIWarning), lines 337-341 *)
W34 ==
    [name |-> "W34", bases |-> <<"VOSIWarning">>,
     declares |-> {"message_template"},
     message_template |-> <<"The ", "downAt", " element must not occur more than once">>,
     default_args |-> <<>>,
     doc |-> <<"The " \o Grave, "downAt", Grave \o " element must not occur more than once.">>]

(* class W35(VOSIWarning), lines 344-348 *)
W35 ==
    [name |-> "W35", bases |-> <<"VOSIWarning">>,
     declares |-> {"message_template"},
     message_template |-> <<"The ", "backAt", " element must not occur more than once">>,
     default_args |-> <<>>,
     doc |-> <<"The " \o Grave, "backAt", Grave \o " element must not occur more than once.">>]

(* class E01(VOSIWarning, ValueError), lines 351-383 *)
E01 ==
    [name |-> "E01", bases |-> <<"VOSIWarning", "ValueError">>,
     declares |-> {"message_template", "default_args"},
     message_template |-> <<"Invalid arraysize attribute '", "{}", "'">>,
     default_args |-> <<"x">>,
     doc |-> <<"The attribute must be a valid arraysize according to the VOTable standard.">>]

(* class E02(VOSIWarning, ValueError), lines 386-390 *)
E02 ==
    [name |-> "E02", bases |-> <<"VOSIWarning", "ValueError">>,
     declares |-> {"message_template"},
     message_template |-> <<"fkColumn element is missing a fromColumn">>,
     default_args |-> <<>>,
     doc |-> <<"The " \o Grave \o "FKColumn" \o Grave \o " element must have a " \o Grave \o "fromColumn" \o Grave \o ".">>]

(* class E03(VOSIWarning, ValueError), lines 393-397 *)
E03 ==
    [name |-> "E03", bases |-> <<"VOSIWarning", "ValueError">>,
     declares |-> {"message_template"},
     message_template |-> <<"The element is missing a targetColumn">>,
     default_args |-> <<>>,
     doc |-> <<"The element must have a " \o Grave \o "targetColumn" \o Grave \o ".">>]

(* class E04(VOSIWarning, ValueError), lines 400-404 *)
E04 ==
    [name |-> "E04", bases |-> <<"VOSIWarning", "ValueError">>,
     declares |-> {"message_template"},
     message_template |-> <<"The element is missing a targetTable">>,
     default_args |-> <<>>,
     doc |-> <<"The element must have a " \o Grave \o "targetTable" \o Grave \o ".">>]

(* class E05(VOSIWarning, ValueError), lines 407-411 *)
E05 ==
    [name |-> "E05", bases |-> <<"VOSIWarning", "ValueError">>,
     declares |-> {"message_template"},
     message_template |-> <<"The element contains no " \o Grave \o "fkColumn" \o Grave>>,
     default_args |-> <<>>,
     doc |-> <<"The element must contain at least one " \o Grave \o "fkColumn" \o Grave \o ".">>]

(* class E06(VOSIWarning, ValueError), lines 414-419 *)
E06 ==
    [name |-> "E06", bases |-> <<"VOSIWarning", "ValueError">>,
     declares |-> {"message_template", "default_args"},
     message_template |-> <<"The ", "{}", " element must habe a name element">>,
     default_args |-> <<"x">>,
     doc |-> <<"The element must have a " \o Grave \o Grave \o "name" \o Grave \o Grave \o " element.">>]

(* class E07(VOSIWarning, ValueError), lines 422-427 *)
E07 ==
    [name |-> "E07", bases |-> <<"VOSIWarning", "ValueError">>,
     declares |-> {"message_template"},
     message_template |-> <<"File does not appear to be a VOSITables file">>,
     default_args |-> <<>>,
     doc |-> <<"Raised either when the file doesn't appear to be XML, or the root element is not tableset or table.">>]

(* class E08(VOSIWarning, ValueError), lines 430-435 *)
E08 ==
    [name |-> "E08", bases |-> <<"VOSIWarning", "ValueError">>,
     declares |-> {"message_template", "default_args"},
     message_template |-> <<"The ", "{}", " element must habe a version element">>,
     default_args |-> <<"x">>,
     doc |-> <<"The element must have a " \o Grave \o Grave \o "version" \o Grave \o Grave \o " element.">>]

(* class E09(VOSIWarning, ValueError), lines 438-443 *)
E09 ==
    [name |-> "E09", bases |-> <<"VOSIWarning", "ValueError">>,
     declares |-> {"message_template", "default_args"},
     message_template |-> <<"The ", "{}", " element must habe a form element">>,
     default_args |-> <<"x">>,
     doc |-> <<"The element must have a " \o Grave \o Grave \o "form" \o Grave \o Grave \o " element.">>]

ClassStatements ==
    <<VOSIWarning,
      W01, W02, W03, W04, W05, W06, W07, W08, W09, W10, W11, W12,
      W13, W14, W15, W16, W17, W18, W19, W20, W21, W22, W23, W24,
      W25, W26, W27, W28, W29, W30, W31, W32, W33, W34, W35,
      E01, E02, E03, E04, E05, E06, E07, E08, E09>>

(***************************************************************************)
(* How Python reads the class statements.                                  *)
(***************************************************************************)

(* the names the class statements bind in the module namespace *)
DefinedNames == {ClassStatements[i].name : i \in DOMAIN ClassStatements}

(* the class statements that bind name n *)
StatementsOf(n) == {i \in DOMAIN ClassStatements : ClassStatements[i].name = n}

(* the class a name stands for: a later statement rebinds an earlier one *)
Resolve(n) ==
    IF n \in DefinedNames
    THEN ClassStatements[CHOOSE i \in StatementsOf(n) :
                            \A j \in StatementsOf(n) : j <= i]
    ELSE CHOOSE c \in {ExternalClasses[i] : i \in DOMAIN ExternalClasses} :
            c.name = n

RECURSIVE Ancestors(_)
(* the classes issubclass(n, .) holds for: n and the ancestors of its bases *)
Ancestors(n) ==
    LET bs == Resolve(n).bases
    IN  {n} \cup UNION {Ancestors(bs[i]) : i \in DOMAIN bs}

RECURSIVE Attr(_, _), AttrInBases(_, _)
(* attribute lookup along the bases, left to right: <<value>> from the     *)
(* first class that declares a, <<>> when none does                        *)
Attr(n, a) ==
    LET c == Resolve(n)
    IN  IF a \in c.declares THEN <<c[a]>> ELSE AttrInBases(c.bases, a)

AttrInBases(bs, a) ==
    IF bs = <<>> THEN <<>>
    ELSE LET r == Attr(Head(bs), a)
         IN  IF r # <<>> THEN r ELSE AttrInBases(Tail(bs), a)

(* the conditions of the module: the proper subclasses of VOSIWarning *)
ConditionNames ==
    {n \in DefinedNames : n # "VOSIWarning" /\ "VOSIWarning" \in Ancestors(n)}

(***************************************************************************)
(* The catalog (spec.md section 3): one record per condition.              *)
(***************************************************************************)

(* FATAL for a condition that is also a ValueError, WARNING otherwise *)
Severity(n) == IF "ValueError" \in Ancestors(n) THEN "FATAL" ELSE "WARNING"

Definition(n) ==
    [code             |-> n,
     severity         |-> Severity(n),
     kinds            |-> Ancestors(n),
     message_template |-> Attr(n, "message_template")[1],
     default_args     |-> Attr(n, "default_args")[1],
     doc              |-> Resolve(n).doc]

ModuleCatalog == [n \in ConditionNames |-> Definition(n)]

(***************************************************************************)
(* Formatting (spec.md section 4.1, contract format).                      *)
(***************************************************************************)

RECURSIVE NumPlaceholders(_)
NumPlaceholders(tpl) ==
    IF tpl = <<>> THEN 0
    ELSE (IF Head(tpl) = "{}" THEN 1 ELSE 0) + NumPlaceholders(Tail(tpl))

RECURSIVE Substitute(_, _)
(* the template with its placeholders filled, in order, from args *)
Substitute(tpl, args) ==
    IF tpl = <<>> THEN <<>>
    ELSE IF Head(tpl) = "{}"
         THEN <<Head(args)>> \o Substitute(Tail(tpl), Tail(args))
         ELSE <<Head(tpl)>> \o Substitute(Tail(tpl), args)

RECURSIVE Text(_)
(* the string a sequence of pieces spells *)
Text(pieces) ==
    IF pieces = <<>> THEN "" ELSE Head(pieces) \o Text(Tail(pieces))

NoResult ==
    [op |-> "none", code |-> "", args |-> <<>>, status |-> "none",
     severity |-> "none", kinds |-> {}, message_template |-> <<>>,
     default_args |-> <<>>, rendered |-> <<>>, message |-> ""]

Failure(op, code, args, status) ==
    [NoResult EXCEPT !.op = op, !.code = code, !.args = args,
                     !.status = status]

(* contract lookup: the definition registered under code, or unknown_code *)
LookupResult(cat, code) ==
    IF code \notin DOMAIN cat
    THEN Failure("lookup", code, <<>>, "unknown_code")
    ELSE [NoResult EXCEPT !.op = "lookup", !.code = code, !.status = "ok",
                          !.severity = cat[code].severity,
                          !.kinds = cat[code].kinds,
                          !.message_template = cat[code].message_template,
                          !.default_args = cat[code].default_args]

(* a formatter that fills what it can and ignores surplus arguments *)
FormatResult_DropSurplus(cat, code, args) ==
    IF code \notin DOMAIN cat
    THEN Failure("format", code, args, "unknown_code")
    ELSE LET d   == cat[code]
             eff == IF args = <<>> THEN d.default_args ELSE args
         IN  IF Len(eff) < NumPlaceholders(d.message_template)
             THEN Failure("format", code, args, "arg_count")
             ELSE [NoResult EXCEPT
                     !.op = "format", !.code = code, !.args = args,
                     !.status = "ok",
                     !.severity = d.severity, !.kinds = d.kinds,
                     !.message_template = d.message_template,
                     !.default_args = d.default_args,
                     !.rendered = Substitute(d.message_template, eff),
                     !.message = Text(Substitute(d.message_template, eff))]

(* contract format: an empty argument list stands for default_args; an     *)
(* argument count other than the placeholder count is a programming error  *)
FormatResult(cat, code, args) ==
    IF code \notin DOMAIN cat
    THEN Failure("format", code, args, "unknown_code")
    ELSE LET d   == cat[code]
             eff == IF args = <<>> THEN d.default_args ELSE args
         IN  IF Len(eff) # NumPlaceholders(d.message_template)
             THEN Failure("format", code, args, "arg_count")
             ELSE [NoResult EXCEPT
                     !.op = "format", !.code = code, !.args = args,
                     !.status = "ok",
                     !.severity = d.severity, !.kinds = d.kinds,
                     !.message_template = d.message_template,
                     !.default_args = d.default_args,
                     !.rendered = Substitute(d.message_template, eff),
                     !.message = Text(Substitute(d.message_template, eff))]

(***************************************************************************)
(* Inputs.                                                                 *)
(***************************************************************************)

(* codes the engine may ask for that the module does not define *)
UnknownCodes == {"W00", "W36", "E10", "W1"}

RequestCodes == {__all__[i] : i \in DOMAIN __all__} \cup UnknownCodes

ArgValues == {"http:::bad", "2.0"}

ArgLists == UNION {[1..n -> ArgValues] : n \in 0..MaxArgs}

(***************************************************************************)
(* The state machine.  catalog is the table built when the module is       *)
(* loaded; result is the outcome of the last operation; aborted says that  *)
(* a fatal condition ended the validation of the current document.         *)
(***************************************************************************)

Init ==
    /\ catalog = ModuleCatalog
    /\ result = NoResult
    /\ aborted = FALSE

Lookup(code) ==
    /\ result' = LookupResult(catalog, code)
    /\ UNCHANGED <<catalog, aborted>>

Format(code, args) ==
    /\ result' = FormatResult(catalog, code, args)
    /\ UNCHANGED <<catalog, aborted>>

(* an emission that rewrites the severity of the emitted condition *)
Emit_Downgrade(code, args) ==
    LET r == FormatResult(catalog, code, args)
    IN  /\ ~aborted
        /\ result' = [r EXCEPT !.op = "emit"]
        /\ aborted' = (r.status = "ok" /\ r.severity = "FATAL")
        /\ catalog' = IF r.status = "ok" /\ r.severity = "FATAL"
                      THEN [catalog EXCEPT ![code].severity = "WARNING"]
                      ELSE catalog

(* contract emit: the message is rendered; after a warning validation goes *)
(* on, a fatal condition is raised and validation stops, a programming     *)
(* error (unknown code, argument count) renders nothing                    *)
Emit(code, args) ==
    LET r == FormatResult(catalog, code, args)
    IN  /\ ~aborted
        /\ result' = [r EXCEPT !.op = "emit"]
        /\ aborted' = (r.status = "ok" /\ r.severity = "FATAL")
        /\ UNCHANGED catalog

(* the engine turns to the next document *)
NewDocument ==
    /\ aborted
    /\ aborted' = FALSE
    /\ UNCHANGED <<catalog, result>>

Next ==
    \/ \E code \in RequestCodes : Lookup(code)
    \/ \E code \in RequestCodes, args \in ArgLists : Format(code, args)
    \/ \E code \in RequestCodes, args \in ArgLists : Emit(code, args)
    \/ NewDocument

Spec == Init /\ [][Next]_vars

TypeOK ==
    /\ aborted \in BOOLEAN
    /\ result.status \in {"none", "ok", "unknown_code", "arg_count"}
    /\ result.op \in {"none", "lookup", "format", "emit"}

(***************************************************************************)
(* The code sets the properties speak of, written out.                     *)
(***************************************************************************)

WCodes ==
    {"W01", "W02", "W03", "W04", "W05", "W06", "W07", "W08", "W09", "W10",
     "W11", "W12", "W13", "W14", "W15", "W16", "W17", "W18", "W19", "W20",
     "W21", "W22", "W23", "W24", "W25", "W26", "W27", "W28", "W29", "W30",
     "W31", "W32", "W33", "W34", "W35"}

ECodes == {"E01", "E02", "E03", "E04", "E05", "E06", "E07", "E08", "E09"}

AllCodes == WCodes \cup ECodes

(* the warnings whose rule is that an element appears at most once *)
AtMostOnceCodes ==
    {"W05", "W06", "W07", "W08", "W09", "W10", "W11", "W12", "W13", "W17",
     "W22", "W23", "W24", "W25", "W27", "W28", "W29", "W30",
     "W32", "W33", "W34", "W35"}

(* the piece that fills position i of a template: the k-th argument at the *)
(* k-th placeholder, the piece of the template elsewhere                   *)
Filled(tpl, args, i) ==
    IF tpl[i] = "{}" THEN args[NumPlaceholders(SubSeq(tpl, 1, i))] ELSE tpl[i]

(* the element a rendered message reports as occurring more than once *)
MessageElement(pieces) ==
    IF \E i \in DOMAIN pieces : pieces[i] = " element contains more than one "
    THEN pieces[(CHOOSE i \in DOMAIN pieces :
                    pieces[i] = " element contains more than one ") + 1]
    ELSE IF \E i \in DOMAIN pieces :
                pieces[i] = " element must not occur more than once"
    THEN pieces[(CHOOSE i \in DOMAIN pieces :
                    pieces[i] = " element must not occur more than once") - 1]
    ELSE ""

(* the element a docstring says may appear only once *)
DocElement(doc) ==
    IF \E i \in DOMAIN doc :
          doc[i] = Grave \o Grave \o " element can only appear once within "
    THEN doc[(CHOOSE i \in DOMAIN doc :
          doc[i] = Grave \o Grave \o " element can only appear once within ") - 1]
    ELSE IF \E i \in DOMAIN doc :
          doc[i] = Grave \o " element must not occur more than once."
    THEN doc[(CHOOSE i \in DOMAIN doc :
          doc[i] = Grave \o " element must not occur more than once.") - 1]
    ELSE ""

(***************************************************************************)
(* C1: a lookup of any code in W01..W35, E01..E09 succeeds and returns a   *)
(* non-empty message template and the severity of its prefix: WARNING for  *)
(* a W code, FATAL for an E code.  Fails for W21, whose class body assigns *)
(* no message_template.                                                    *)
(***************************************************************************)
C1_LookupEveryCode ==
    (result.op = "lookup" /\ result.code \in AllCodes) =>
        /\ result.status = "ok"
        /\ result.message_template # <<>>
        /\ Text(result.message_template) # ""
        /\ result.severity =
              (IF result.code \in WCodes THEN "WARNING" ELSE "FATAL")

(***************************************************************************)
(* C2: the codes of the catalog are exactly W01..W35 and E01..E09, each    *)
(* bound by exactly one class statement, with no other name defined but    *)
(* VOSIWarning; __all__ lists VOSIWarning and these 44 codes, each once,   *)
(* and every name it lists is defined.                                     *)
(***************************************************************************)
C2_CodesDefinedExactlyOnce ==
    /\ \A c \in AllCodes : Cardinality(StatementsOf(c)) = 1
    /\ DefinedNames = AllCodes \cup {"VOSIWarning"}
    /\ DOMAIN catalog = AllCodes
    /\ Len(__all__) = Cardinality(AllCodes) + 1
    /\ {__all__[i] : i \in DOMAIN __all__} = AllCodes \cup {"VOSIWarning"}
    /\ \A i \in DOMAIN __all__ : __all__[i] \in DefinedNames

(* the last exported name has been looked up and found *)
C2_Witness ==
    /\ result.op = "lookup"
    /\ result.code = __all__[Len(__all__)]
    /\ result.code = "E09"
    /\ result.status = "ok"

(***************************************************************************)
(* C3: every fatal code E01..E09 is both a VOSIWarning (hence a VOWarning) *)
(* and a ValueError; no warning code W01..W35 is a ValueError; so the      *)
(* conditions a handler of ValueError catches are exactly the E codes,     *)
(* an emitted instance is a ValueError exactly when its code is one, and   *)
(* the emission of a warning aborts nothing.                               *)
(***************************************************************************)
C3_FatalDualClassification ==
    /\ \A c \in ECodes :
          /\ c \in DOMAIN catalog
          /\ {"VOSIWarning", "VOWarning", "ValueError"} \subseteq catalog[c].kinds
    /\ \A c \in WCodes :
          /\ c \in DOMAIN catalog
          /\ {"VOSIWarning", "VOWarning"} \subseteq catalog[c].kinds
          /\ "ValueError" \notin catalog[c].kinds
    /\ {c \in DOMAIN catalog : "ValueError" \in catalog[c].kinds} = ECodes
    /\ (result.op = "emit" /\ result.status = "ok") =>
          /\ "VOSIWarning" \in result.kinds
          /\ ("ValueError" \in result.kinds) <=> (result.code \in ECodes)
          /\ result.code \in WCodes => ~aborted

(* a fatal condition has been emitted and is of both kinds *)
C3_Witness ==
    /\ result.op = "emit"
    /\ result.code = "E05"
    /\ aborted
    /\ {"VOSIWarning", "ValueError"} \subseteq result.kinds

(***************************************************************************)
(* C4: for every condition, default_args when declared is as long as the   *)
(* number of placeholders of the message template; a template without      *)
(* placeholders comes with no declared default_args; a template with       *)
(* placeholders comes with default_args of that length.                    *)
(***************************************************************************)
C4_DefaultsMatchPlaceholders ==
    \A i \in DOMAIN ClassStatements :
        LET s == ClassStatements[i]
        IN  s.name \in DOMAIN catalog =>
              LET n == NumPlaceholders(catalog[s.name].message_template)
              IN  /\ "default_args" \in s.declares => Len(s.default_args) = n
                  /\ n = 0 => "default_args" \notin s.declares
                  /\ n >= 1 => /\ "default_args" \in s.declares
                               /\ Len(catalog[s.name].default_args) = n

(* a template with one placeholder has been formatted with its one default *)
C4_Witness ==
    /\ result.op = "format"
    /\ result.code = "W13"
    /\ result.args = <<>>
    /\ result.status = "ok"
    /\ NumPlaceholders(result.message_template) = 1
    /\ Len(result.default_args) = 1

(***************************************************************************)
(* C5: formatting any code with an empty argument list succeeds and fills  *)
(* the placeholders from default_args; a template without placeholders is  *)
(* rendered as its own text.                                               *)
(***************************************************************************)
C5_FormatWithDefaults ==
    (result.op = "format" /\ result.args = <<>> /\ result.code \in AllCodes) =>
        LET d == catalog[result.code]
        IN  /\ result.status = "ok"
            /\ Len(result.rendered) = Len(d.message_template)
            /\ \A i \in DOMAIN d.message_template :
                  result.rendered[i] = Filled(d.message_template, d.default_args, i)
            /\ result.message = Text(result.rendered)
            /\ NumPlaceholders(d.message_template) = 0 =>
                  result.message = Text(d.message_template)
            /\ result.code = "W01" => result.message = "'x' is not a valid URI"
            /\ result.code = "W03" => result.message = "Size must be positive"
            /\ result.code = "E07" =>
                  result.message = "File does not appear to be a VOSITables file"

(* W01 has been formatted with no arguments *)
C5_Witness ==
    /\ result.op = "format"
    /\ result.code = "W01"
    /\ result.args = <<>>
    /\ result.message = "'x' is not a valid URI"

C7_UnknownCodeFails ==
    (result.op \in {"lookup", "format", "emit"} /\ result.code \notin AllCodes) =>
        /\ result.status = "unknown_code"
        /\ result.message_template = <<>>
        /\ result.default_args = <<>>
        /\ result.rendered = <<>>
        /\ result.message = ""
        /\ result.severity = "none"
        /\ result.op = "emit" => ~aborted

(* the first number past the warnings has been looked up *)
C7_Witness ==
    /\ result.op = "lookup"
    /\ result.code = "W36"
    /\ result.status = "unknown_code"

(***************************************************************************)
(* C8: formatting a code with as many arguments as its template has        *)
(* placeholders succeeds, whatever was formatted or emitted before, and    *)
(* the message is the template with the k-th placeholder replaced by the   *)
(* k-th argument as given; W01 with http:::bad and W15 with 2.0 render the *)
(* expected texts.                                                         *)
(***************************************************************************)
C8_FormatExplicitArgs ==
    /\ ( /\ result.op = "format"
         /\ result.code \in AllCodes
         /\ result.args # <<>>
         /\ Len(result.args) =
               NumPlaceholders(catalog[result.code].message_template) ) =>
          LET tpl == catalog[result.code].message_template
          IN  /\ result.status = "ok"
              /\ Len(result.rendered) = Len(tpl)
              /\ \A i \in DOMAIN tpl :
                    result.rendered[i] = Filled(tpl, result.args, i)
              /\ result.message = Text(result.rendered)
    /\ ( /\ result.op = "format"
         /\ result.code = "W01"
         /\ result.args = <<"http:::bad">> ) =>
          result.message = "'http:::bad' is not a valid URI"
    /\ ( /\ result.op = "format"
         /\ result.code = "W15"
         /\ result.args = <<"2.0">> ) =>
          result.message =
            "pyvo.dal is designed for VOSITables version 1.0, and 1.1, but this file is 2.0"

(* W01 has been formatted with the malformed URI, after a fatal emission *)
C8_Witness ==
    /\ result.op = "format"
    /\ result.code = "W01"
    /\ result.args = <<"http:::bad">>
    /\ result.status = "ok"
    /\ aborted

C10_MessageNamesDocumentedElement ==
    ( /\ result.op = "format"
      /\ result.status = "ok"
      /\ result.code \in AtMostOnceCodes
      /\ result.code \in DOMAIN catalog ) =>
        /\ DocElement(catalog[result.code].doc) # ""
        /\ MessageElement(result.rendered) = DocElement(catalog[result.code].doc)

(* the two properties above hold of every code but the one named *)
C1_ExceptW21 == result.code # "W21" => C1_LookupEveryCode

C10_ExceptW17 == result.code # "W17" => C10_MessageNamesDocumentedElement
=============================================================================
